---- MODULE Spec2Model ----
(***************************************************************************)
(* Model of package comb (src/main.go): the fixed-width integer codec      *)
(* (uint64ToBytes, bytesToUint64), the timestamp write and read            *)
(* (SetTimeStamp, ReadCustomTimeStamp, ReadTimeStamp) and the identifier   *)
(* generation (CustomTimeStampedUUID, NewTimeStampedUUID), together with   *)
(* the reference codec of src/main_test.go (putBytesSafe, fillUint64Safe). *)
(*                                                                         *)
(* A uuid.UUID is a function 0..15 -> 0..255.  A uint64 is held as its     *)
(* eight base-256 digits, v[k] being the digit of weight 256^k, so that    *)
(* the full 64-bit width is kept.  A byte slice is a function              *)
(* 0..len-1 -> 0..255; a slice of the identifier is written back by the    *)
(* caller of the codec, which is what the aliasing of id[off:] does.       *)
(***************************************************************************)
EXTENDS Integers, Sequences, FiniteSets

\* ------------------------------------------------------------------ sizes

UUIDLen == 16

lenInt == 8

DefaultNBytes == 6

\* time.Second in nanoseconds, the unit of time.Duration.
Second == 1000000000

\* time.Millisecond / 10, the resolution NewTimeStampedUUID passes.
DefaultRes == 100000

\* ----------------------------------------------------------------- bounds

\* Widths handed to the operations range over MinNBytes..MaxNBytes.
MaxNBytes == 17

\* The entropy source repeats a block of EntropyPeriod bytes.
EntropyPeriod == 3

\* A failing entropy source delivers 0..MaxShortRead bytes before its error.
MaxShortRead == 2

\* ------------------------------------------------------------ byte algebra

Byte == 0..255

Pow2(j) == 2 ^ j

Bit(x, j) == (x \div Pow2(j)) % 2

\* x & y on bytes
And(x, y) ==
  Bit(x, 0) * Bit(y, 0) + 2 * Bit(x, 1) * Bit(y, 1) + 4 * Bit(x, 2) * Bit(y, 2)
  + 8 * Bit(x, 3) * Bit(y, 3) + 16 * Bit(x, 4) * Bit(y, 4) + 32 * Bit(x, 5) * Bit(y, 5)
  + 64 * Bit(x, 6) * Bit(y, 6) + 128 * Bit(x, 7) * Bit(y, 7)

\* x | y on bytes
Or(x, y) == x + y - And(x, y)

\* ------------------------------------------------------------------ uint64

Zero64 == [k \in 0..7 |-> 0]

Ones64 == [k \in 0..7 |-> 255]

\* Bit j of a uint64; a bit at or beyond 64 is 0 (Go shifts in zeros).
U64Bit(v, j) == IF j >= 64 THEN 0 ELSE Bit(v[j \div 8], j % 8)

\* byte(v >> s)
ShrByte(v, s) ==
  U64Bit(v, s) + 2 * U64Bit(v, s + 1) + 4 * U64Bit(v, s + 2) + 8 * U64Bit(v, s + 3)
  + 16 * U64Bit(v, s + 4) + 32 * U64Bit(v, s + 5) + 64 * U64Bit(v, s + 6)
  + 128 * U64Bit(v, s + 7)

\* v & m on uint64
And64(v, m) == [k \in 0..7 |-> And(v[k], m[k])]

\* uint64(q) for an integer 0 <= q < 2^31
ToU64(q) == [k \in 0..7 |-> IF k <= 3 THEN (q \div (256 ^ k)) % 256 ELSE 0]

\* ------------------------------------------------------------- identifiers

Nil == [i \in 0..(UUIDLen - 1) |-> 0]

\* id[off:]
Slice(id, off) == [i \in 0..(UUIDLen - 1 - off) |-> id[off + i]]

\* The effect on id of a write through the slice id[off:].
WriteBack(id, off, b) == [i \in 0..(UUIDLen - 1) |-> IF i >= off THEN b[i - off] ELSE id[i]]

\* --------------------------------------------------------------- the codec

\* The outcome of a codec write: a panic, or the slice as written.
Wrote(b) == [panic |-> FALSE, b |-> b]

WritePanic(b) == [panic |-> TRUE, b |-> b]

\* func uint64ToBytes(b []byte, n int, v uint64): b[n-1] is the bounds check,
\* then b[i] = byte(v >> (1 << (n - 1 - i))) for i in 0..n-1.
uint64ToBytes(b, n, v) ==
  IF (n - 1) \notin DOMAIN b
    THEN WritePanic(b)
    ELSE Wrote([i \in DOMAIN b |-> IF i < n THEN ShrByte(v, Pow2(n - 1 - i)) ELSE b[i]])

\* func putBytesSafe(b []byte, n int, v uint64) of the test: b[5] is the bounds
\* check, then b[0] = byte(v >> 40) ... b[5] = byte(v); n is not used.
putBytesSafe(b, n, v) ==
  IF 5 \notin DOMAIN b
    THEN WritePanic(b)
    ELSE Wrote([i \in DOMAIN b |-> IF i <= 5 THEN ShrByte(v, 40 - 8 * i) ELSE b[i]])

\* The outcome of a codec read: a panic, or the value.
Value(val) == [panic |-> FALSE, val |-> val]

ReadPanic == [panic |-> TRUE, val |-> Zero64]

\* A little-endian reading of the slice (the byte order reversed).
bytesToUint64LittleEndian(b, n) ==
  IF (n - 1) \notin DOMAIN b \/ Cardinality(DOMAIN b) > lenInt
    THEN ReadPanic
    ELSE Value([k \in 0..7 |-> IF k < n THEN b[k] ELSE 0])

\* func bytesToUint64(b []byte, n int) uint64: b[n-1] is the bounds check, a
\* slice longer than 8 panics, then val |= uint64(b[n-1-i]) << (i * 8) for
\* i in 0..n-1: the byte b[n-1-i] becomes the digit of weight 256^i.
bytesToUint64(b, n) ==
  IF (n - 1) \notin DOMAIN b \/ Cardinality(DOMAIN b) > lenInt
    THEN ReadPanic
    ELSE Value([k \in 0..7 |-> IF k < n THEN b[n - 1 - k] ELSE 0])

\* func fillUint64Safe(b []byte) uint64 of the test: b[7] is the bounds check,
\* then uint64(b[7]) | uint64(b[6])<<8 | ... | uint64(b[0])<<56.
fillUint64Safe(b) ==
  IF 7 \notin DOMAIN b THEN ReadPanic ELSE Value([k \in 0..7 |-> b[7 - k]])

\* func ReadCustomTimeStamp(id uuid.UUID, nBytes int) uint64: the slice
\* id[len(id)-nBytes:] panics when its start is outside 0..16.
ReadCustomTimeStamp(id, nBytes) ==
  IF UUIDLen - nBytes < 0 \/ UUIDLen - nBytes > UUIDLen
    THEN ReadPanic
    ELSE bytesToUint64(Slice(id, UUIDLen - nBytes), nBytes)

\* func ReadTimeStamp(id uuid.UUID) uint64
ReadTimeStamp(id) == ReadCustomTimeStamp(id, DefaultNBytes)

\* ------------------------------------------------------- the timestamp write

\* res = time.Second / 10 / res: the divisor SetTimeStamp applies to t.
Scale(res) == (Second \div 10) \div res

\* mask := uint64(1<<uint64(nBytes*8) - 1): a shift of 64 or more (and the
\* huge count a negative nBytes converts to) leaves 0, and 0 - 1 is all ones.
Mask(nBytes) ==
  IF nBytes < 0 \/ nBytes * 8 >= 64
    THEN Ones64
    ELSE [k \in 0..7 |-> IF k < nBytes THEN 255 ELSE 0]

\* uint64(math.Round(float64(t) / float64(res))): round half away from zero of
\* the quotient (exact for the times of the model, all below 2^52).  With a
\* zero divisor the quotient is +Inf or NaN and the conversion to uint64 is
\* implementation-dependent: undef is the value the build produces.
RoundQuotient(t, scale, undef) ==
  IF scale = 0 THEN undef ELSE ToU64((2 * t + scale) \div (2 * scale))

\* timeBytes of SetTimeStamp
TimeBytes(nBytes, t, res, undef) == And64(RoundQuotient(t, Scale(res), undef), Mask(nBytes))

Stamped(id) == [id |-> id, err |-> "nil", panic |-> FALSE]

StampError(id) == [id |-> id, err |-> "to many bytes to format", panic |-> FALSE]

StampPanic(id) == [id |-> id, err |-> "nil", panic |-> TRUE]

\* func SetTimeStamp(id uuid.UUID, nBytes int, t uuid.Time, res time.Duration)
SetTimeStamp(id, nBytes, t, res, undef) ==
  IF nBytes > UUIDLen
    THEN StampError(id)
    ELSE IF UUIDLen - nBytes > UUIDLen
      THEN StampPanic(id)
      ELSE LET off == UUIDLen - nBytes
               w == uint64ToBytes(Slice(id, off), nBytes, TimeBytes(nBytes, t, res, undef))
           IN  IF w.panic THEN StampPanic(id) ELSE Stamped(WriteBack(id, off, w.b))

\* ------------------------------------------------------------ the generation

\* The entropy source: byte i of the stream is block[i % EntropyPeriod].
Stream(block, i) == block[i % EntropyPeriod]

\* A fill of the whole identifier: io.ReadFull(r, id[:]).
ReadFullWhole(id, nBytes, block, avail) ==
  LET got == IF avail < UUIDLen THEN avail ELSE UUIDLen
  IN  [id |-> [i \in 0..(UUIDLen - 1) |-> IF i < got THEN Stream(block, i) ELSE id[i]],
       err |-> IF got < UUIDLen THEN "unexpected EOF" ELSE "nil"]

\* io.ReadFull(r, id[:len(id)-nBytes]) on a source that can deliver avail bytes:
\* the bytes delivered are written to the front of id, and fewer than asked is
\* an error.  A destination of no bytes is a success whatever the source.
ReadFull(id, nBytes, block, avail) ==
  LET need == UUIDLen - nBytes
      got == IF avail < need THEN avail ELSE need
  IN  [id |-> [i \in 0..(UUIDLen - 1) |-> IF i < got THEN Stream(block, i) ELSE id[i]],
       err |-> IF got < need THEN "unexpected EOF" ELSE "nil"]

\* A marker that ORs the constants in without clearing the bits first.
ApplyMarkerNoClear(id) ==
  [id EXCEPT ![6] = Or(id[6], 96), ![8] = Or(id[8], 224)]

\* A marker that keeps only the low nibble of byte 8.
ApplyMarkerWideMask(id) ==
  [id EXCEPT ![6] = Or(And(id[6], 15), 96), ![8] = Or(And(id[8], 15), 224)]

\* id[6] = (id[6] & 0x0f) | 0x60; id[8] = (id[8] & 0x3f) | 0xe0
ApplyMarker(id) ==
  [id EXCEPT ![6] = Or(And(id[6], 15), 96), ![8] = Or(And(id[8], 63), 224)]

\* ------------------------------------------------------------------- inputs

\* Widths: negative, zero, the valid 1..8, 9..16, and beyond the identifier.
NBytesInputs == (0 - 1)..MaxNBytes

\* uuid.Time values, in 100 ns ticks: 0, a quotient ending in .5 at a divisor
\* of 1000, and quotients that pass 2^8, 2^16 and 2^24.
Times == {0, 1500, 255500, 65536000, 1000000000}

\* time.Duration values, in nanoseconds: 10 us, 100 us, 1 ms and 1 s.
Resolutions == {10000, DefaultRes, 1000000, Second}

\* What uint64(+Inf) or uint64(NaN) may be on a build: 0, 2^63 or 2^64 - 1.
UndefU64 == {Zero64, [k \in 0..7 |-> IF k = 7 THEN 128 ELSE 0], Ones64}

\* The conversion is implementation-dependent only when the divisor is zero.
Undefs(r) == IF Scale(r) = 0 THEN UndefU64 ELSE {Zero64}

\* uint64 values for the codec: the digits below len are a, a + s, a + 2s, ...
PatternU64(a, s, len) == [k \in 0..7 |-> IF k < len THEN (a + s * k) % 256 ELSE 0]

Values == {PatternU64(a, s, len) : a \in {1, 128, 255}, s \in {0, 17}, len \in 0..8}

\* Identifiers a caller holds: uuid.Nil, the identifier of the tests
\* (00000000-0000-0000-0000-ffffffffffff), all ones, and one of distinct bytes.
IdInputs ==
  { Nil,
    [i \in 0..(UUIDLen - 1) |-> IF i >= 10 THEN 255 ELSE 0],
    [i \in 0..(UUIDLen - 1) |-> 255],
    [i \in 0..(UUIDLen - 1) |-> 16 * i + 1] }

EntropyBytes == {0, 90, 255}

Blocks == [0..(EntropyPeriod - 1) -> EntropyBytes]

\* What the entropy source can deliver: too little, or all that is asked.
Avails == (0..MaxShortRead) \cup {UUIDLen}

\* -------------------------------------------------------------------- state

VARIABLES
  pc,         \* idle, inside CustomTimeStampedUUID (stamped, filled), returned or panicked
  op,         \* the function called last
  id,         \* the identifier: the local id of the call, then its result
  nBytes,     \* the width argument
  t,          \* the uuid.Time argument
  res,        \* the time.Duration argument
  rfc4122,    \* the marker flag
  scale,      \* the divisor SetTimeStamp computed (res after its first line)
  timeBytes,  \* the value handed to uint64ToBytes (timeBytes, or the test's v)
  err,        \* the error returned
  rd          \* the last read of id: [fn, n, out], or NoRead

vars == <<pc, op, id, nBytes, t, res, rfc4122, scale, timeBytes, err, rd>>

NoRead == [fn |-> "none", n |-> 0, out |-> ReadPanic]

Init ==
  /\ pc = "idle"
  /\ op = "none"
  /\ id = Nil
  /\ nBytes = 0
  /\ t = 0
  /\ res = DefaultRes
  /\ rfc4122 = FALSE
  /\ scale = 0
  /\ timeBytes = Zero64
  /\ err = "nil"
  /\ rd = NoRead

\* The caller takes up an identifier (uuid.Parse in TestBytesToUint64).
Parse ==
  /\ pc = "idle"
  /\ \E idIn \in IdInputs :
       /\ id' = idIn
       /\ pc' = "returned"
       /\ op' = "Parse"
       /\ err' = "nil"
       /\ nBytes' = 0
       /\ t' = 0
       /\ res' = DefaultRes
       /\ rfc4122' = FALSE
       /\ scale' = 0
  /\ timeBytes' = Zero64
       /\ rd' = NoRead

\* TestUint64ToBytes: id := uuid.Nil; uint64ToBytes(id[16-n:], n, v).
CallUint64ToBytes ==
  /\ pc = "idle"
  /\ \E n \in 0..UUIDLen, val \in Values :
       LET w == uint64ToBytes(Slice(Nil, UUIDLen - n), n, val)
       IN  /\ id' = IF w.panic THEN Nil ELSE WriteBack(Nil, UUIDLen - n, w.b)
           /\ pc' = IF w.panic THEN "panicked" ELSE "returned"
           /\ op' = "uint64ToBytes"
           /\ err' = "nil"
           /\ nBytes' = n
           /\ t' = 0
           /\ res' = DefaultRes
           /\ rfc4122' = FALSE
           /\ scale' = 0
           /\ timeBytes' = val
           /\ rd' = NoRead

\* A call of SetTimeStamp on an identifier the caller holds.
CallSetTimeStamp ==
  /\ pc = "idle"
  /\ \E idIn \in IdInputs, n \in NBytesInputs, tm \in Times, r \in Resolutions : \E undef \in Undefs(r) :
       LET s == SetTimeStamp(idIn, n, tm, r, undef)
       IN  /\ id' = s.id
           /\ pc' = IF s.panic THEN "panicked" ELSE "returned"
           /\ op' = "SetTimeStamp"
           /\ err' = s.err
           /\ nBytes' = n
           /\ t' = tm
           /\ res' = r
           /\ rfc4122' = FALSE
           /\ scale' = Scale(r)
      /\ timeBytes' = TimeBytes(n, tm, r, undef)
           /\ rd' = NoRead

\* CustomTimeStampedUUID up to the return of SetTimeStamp: var id uuid.UUID;
\* id, err = SetTimeStamp(id, nBytes, t, res); on an error, return fail(err),
\* which returns the id of the call.
Begin(fn, n, tm, r, flag, undef) ==
  LET s == SetTimeStamp(Nil, n, tm, r, undef)
  IN  /\ id' = s.id
      /\ pc' = IF s.panic THEN "panicked" ELSE IF s.err # "nil" THEN "returned" ELSE "stamped"
      /\ op' = fn
      /\ err' = s.err
      /\ nBytes' = n
      /\ t' = tm
      /\ res' = r
      /\ rfc4122' = flag
      /\ scale' = Scale(r)
      /\ timeBytes' = TimeBytes(n, tm, r, undef)
      /\ rd' = NoRead

CallCustomTimeStampedUUID ==
  /\ pc = "idle"
  /\ \E n \in NBytesInputs, tm \in Times, r \in Resolutions, flag \in BOOLEAN : \E undef \in Undefs(r) :
       Begin("CustomTimeStampedUUID", n, tm, r, flag, undef)

\* NewTimeStampedUUID when uuid.GetTime fails: return uuid.Nil and the error.
NewTimeStampedUUIDNoClock ==
  /\ pc = "idle"
  /\ id' = Nil
  /\ pc' = "returned"
  /\ op' = "NewTimeStampedUUID"
  /\ err' = "GetTime"
  /\ nBytes' = DefaultNBytes
  /\ t' = 0
  /\ res' = DefaultRes
  /\ rfc4122' = TRUE
  /\ scale' = 0
  /\ timeBytes' = Zero64
  /\ rd' = NoRead

\* NewTimeStampedUUID: CustomTimeStampedUUID(rand.Reader, 6, now, time.Millisecond/10, true)
CallNewTimeStampedUUID ==
  /\ pc = "idle"
  /\ \E tm \in Times, undef \in Undefs(DefaultRes) :
       Begin("NewTimeStampedUUID", DefaultNBytes, tm, DefaultRes, TRUE, undef)

\* _, err = io.ReadFull(r, id[:len(id)-nBytes]); on an error, return fail(err).
Fill ==
  /\ pc = "stamped"
  /\ \E block \in Blocks, avail \in Avails :
       LET f == ReadFull(id, nBytes, block, avail)
       IN  /\ id' = f.id
           /\ err' = f.err
           /\ pc' = IF f.err # "nil" THEN "returned" ELSE "filled"
  /\ UNCHANGED <<op, nBytes, t, res, rfc4122, scale, timeBytes, rd>>

\* if rfc4122 { id[6] = ...; id[8] = ... }; return id, nil
Marker ==
  /\ pc = "filled"
  /\ id' = IF rfc4122 THEN ApplyMarker(id) ELSE id
  /\ pc' = "returned"
  /\ UNCHANGED <<op, nBytes, t, res, rfc4122, scale, timeBytes, err, rd>>

\* The widths the caller reads at: any width for an identifier it parsed or
\* wrote a value into, and for a generated identifier the width it was
\* generated with (ReadTimeStamp reads it at the default width).
ReadWidths ==
  IF op \in {"CustomTimeStampedUUID", "NewTimeStampedUUID"} THEN {nBytes} ELSE NBytesInputs

\* ReadCustomTimeStamp(id, n) on the identifier the caller holds.
CallReadCustomTimeStamp ==
  /\ pc = "returned"
  /\ rd = NoRead
  /\ \E n \in ReadWidths :
       rd' = [fn |-> "ReadCustomTimeStamp", n |-> n, out |-> ReadCustomTimeStamp(id, n)]
  /\ UNCHANGED <<pc, op, id, nBytes, t, res, rfc4122, scale, timeBytes, err>>

\* ReadTimeStamp(id) on the identifier the caller holds.
CallReadTimeStamp ==
  /\ pc = "returned"
  /\ rd = NoRead
  /\ rd' = [fn |-> "ReadTimeStamp", n |-> DefaultNBytes, out |-> ReadTimeStamp(id)]
  /\ UNCHANGED <<pc, op, id, nBytes, t, res, rfc4122, scale, timeBytes, err>>

Next ==
  \/ Parse
  \/ CallUint64ToBytes
  \/ CallSetTimeStamp
  \/ CallCustomTimeStampedUUID
  \/ NewTimeStampedUUIDNoClock
  \/ CallNewTimeStampedUUID
  \/ Fill
  \/ Marker
  \/ CallReadCustomTimeStamp
  \/ CallReadTimeStamp

Spec == Init /\ [][Next]_vars

\* ------------------------------------------------------------------ claims

Generators == {"CustomTimeStampedUUID", "NewTimeStampedUUID"}

\* The caller has read back, at the width of the write, the identifier that
\* the call named fn returned.
ReadBack(fn) ==
  /\ op = fn
  /\ pc = "returned"
  /\ err = "nil"
  /\ rd.fn = "ReadCustomTimeStamp"
  /\ rd.n = nBytes

\* v < 2^(8n): the digits of weight 256^n and above are zero.
FitsWidth(val, n) == \A k \in 0..7 : k >= n => val[k] = 0

\* C1: for every width w in 1..8 and every v below 2^(8w), reading back with
\* bytesToUint64 the w-byte region that uint64ToBytes wrote v into returns v.
C1_RoundTrip ==
  (ReadBack("uint64ToBytes") /\ nBytes \in 1..8 /\ FitsWidth(timeBytes, nBytes))
    => (~rd.out.panic /\ rd.out.val = timeBytes)

\* C2: uint64ToBytes(b, w, v) sets b[i] to (v >> 8*(w-1-i)) mod 256 for each i
\* in 0..w-1, and at w = 6 it writes the six bytes putBytesSafe writes.
C2_BigEndianEncoding ==
  (op = "uint64ToBytes" /\ pc = "returned" /\ nBytes \in 1..8)
    => /\ \A i \in 0..(nBytes - 1) :
            id[UUIDLen - nBytes + i] = ShrByte(timeBytes, 8 * (nBytes - 1 - i))
       /\ nBytes = 6 => Slice(id, 10) = putBytesSafe(Slice(Nil, 10), 6, timeBytes).b

\* byt := make([]byte, 8); copy(byt[2:], id[10:]) of TestBytesToUint64
PaddedTail(ident) == [j \in 0..7 |-> IF j < 2 THEN 0 ELSE ident[8 + j]]

\* C3: for every identifier and every n in 1..8, ReadCustomTimeStamp(id, n) is
\* the sum of id[16-n+i] * 256^(n-1-i): its digit of weight 256^k is id[15-k]
\* for k < n and 0 above; ReadTimeStamp(id) is that value at n = 6, which is
\* fillUint64Safe of the trailing six bytes left-padded with two zero bytes.
C3_BigEndianDecoding ==
  /\ (rd.fn = "ReadCustomTimeStamp" /\ rd.n \in 1..8)
       => /\ ~rd.out.panic
          /\ \A k \in 0..7 : rd.out.val[k] = IF k < rd.n THEN id[UUIDLen - 1 - k] ELSE 0
  /\ rd.fn = "ReadTimeStamp"
       => /\ ~rd.out.panic
          /\ \A k \in 0..7 : rd.out.val[k] = IF k < 6 THEN id[UUIDLen - 1 - k] ELSE 0
          /\ rd.out = fillUint64Safe(PaddedTail(id))

\* ReadTimeStamp has read an identifier whose trailing six bytes all differ.
C3_Witness ==
  /\ op = "Parse"
  /\ rd.fn = "ReadTimeStamp"
  /\ rd.out.val[0] = 241
  /\ rd.out.val[5] = 161
  /\ rd.out.val[6] = 0

\* C4: whenever CustomTimeStampedUUID or NewTimeStampedUUID returns an error,
\* the identifier returned with it is the all-zero identifier.
C4_ZeroIdentifierOnFailure ==
  (op \in Generators /\ pc = "returned" /\ err # "nil") => id = Nil

\* C5: SetTimeStamp and CustomTimeStampedUUID succeed only when nBytes is in
\* 1..8; outside that range the call fails and writes no timestamp region.
C5_WidthValidated ==
  (op \in Generators \cup {"SetTimeStamp"} /\ pc \in {"stamped", "filled", "returned"}
     /\ err = "nil")
    => nBytes \in 1..8

\* C6: every identifier CustomTimeStampedUUID returns without error with
\* rfc4122 set has 6 in the high nibble of byte 6 and binary 11 in the top two
\* bits of byte 8, whatever the width, the time and the entropy.
C6_MarkerInvariant ==
  (op \in Generators /\ pc = "returned" /\ err = "nil" /\ rfc4122)
    => (id[6] \div 16 = 6 /\ id[8] \div 64 = 3)

\* An identifier returned with the marker over entropy bytes of all ones.
C6_Witness ==
  /\ op = "CustomTimeStampedUUID"
  /\ pc = "returned"
  /\ err = "nil"
  /\ rfc4122
  /\ nBytes = 6
  /\ id[6] = 111
  /\ id[8] = 255
  /\ id[7] = 255

\* round(t / s) for t >= 0 and s > 0, half away from zero
RoundHalfAway(tm, s) == (2 * tm + s) \div (2 * s)

\* The digit of weight 256^k of q mod 2^(8n), for 0 <= q < 2^31
DigitMod(q, n, k) == IF k < n /\ k <= 3 THEN (q \div (256 ^ k)) % 256 ELSE 0

\* C7: for every nBytes in 1..8, time t and resolution, reading back what
\* SetTimeStamp wrote gives round(t / scale) mod 2^(8*nBytes), rounding half
\* away from zero, scale being the divisor SetTimeStamp computes.
C7_RoundingLaw ==
  (ReadBack("SetTimeStamp") /\ nBytes \in 1..8 /\ scale # 0)
    => /\ ~rd.out.panic
       /\ \A k \in 0..7 : rd.out.val[k] = DigitMod(RoundHalfAway(t, scale), nBytes, k)

\* C8: the divisor SetTimeStamp applies to t is the number of 100 ns ticks in
\* one res interval (res / 100 ns), and it is never zero.
C8_ResolutionDivisor ==
  (op \in Generators \cup {"SetTimeStamp"} /\ pc = "returned" /\ err = "nil"
     /\ nBytes \in 1..8)
    => (scale = res \div 100 /\ scale # 0)

\* The marker step: CustomTimeStampedUUID goes from filled to its return.
MarkerStep == pc = "filled" /\ pc' = "returned"

\* C9 as stated: the marker changes only the high four bits of byte 6 and the
\* top two bits of byte 8; the low four bits of byte 6, the low six bits of
\* byte 8 and the fourteen other bytes are as they were after the fill.
C9_MarkerFrameSixBits ==
  [][MarkerStep =>
       /\ id'[6] % 16 = id[6] % 16
       /\ id'[8] % 64 = id[8] % 64
       /\ \A i \in 0..(UUIDLen - 1) : i \notin {6, 8} => id'[i] = id[i]]_vars

\* C9 as amended: the marker changes only the high four bits of byte 6 and the
\* top three bits of byte 8; the low four bits of byte 6, the low five bits of
\* byte 8 and the fourteen other bytes are as they were after the fill.
C9_MarkerFrame ==
  [][MarkerStep =>
       /\ id'[6] % 16 = id[6] % 16
       /\ id'[8] % 32 = id[8] % 32
       /\ \A i \in 0..(UUIDLen - 1) : i \notin {6, 8} => id'[i] = id[i]]_vars

\* An identifier returned with the marker over entropy bytes 0x5a: byte 6 is
\* 0x6a and byte 8 is 0xfa, between untouched neighbours.
C9_Witness ==
  /\ op = "CustomTimeStampedUUID"
  /\ pc = "returned"
  /\ err = "nil"
  /\ rfc4122
  /\ nBytes = 6
  /\ id[5] = 90
  /\ id[6] = 106
  /\ id[7] = 90
  /\ id[8] = 250
  /\ id[9] = 90

\* What SetTimeStamp writes into the zero identifier for the arguments of the
\* call (timeBytes stands for the implementation-dependent conversion where
\* the divisor is zero: it is that value, masked, and masking again keeps it).
StampOfNil == SetTimeStamp(Nil, nBytes, t, res, timeBytes).id

\* The trailing nBytes of the identifier are those SetTimeStamp wrote.
RegionKept ==
  LET stamp == StampOfNil
  IN  \A i \in (UUIDLen - nBytes)..(UUIDLen - 1) : id[i] = stamp[i]

\* SetTimeStamp left bytes 0..15-nBytes of the identifier it was given.
LeadingKept(idIn) == \A i \in 0..(UUIDLen - 1 - nBytes) : id[i] = idIn[i]

StampKeepsLeading ==
  /\ (op \in Generators /\ pc = "stamped" /\ nBytes \in 1..8) => LeadingKept(Nil)
  /\ (op = "SetTimeStamp" /\ pc = "returned" /\ err = "nil" /\ nBytes \in 1..8)
       => \E idIn \in IdInputs : LeadingKept(idIn)

\* C10 as stated: for every nBytes in 1..8, with and without the marker, the
\* trailing nBytes of the identifier CustomTimeStampedUUID returns without
\* error are the trailing nBytes SetTimeStamp writes into the zero identifier
\* for the same width, time and resolution; SetTimeStamp leaves bytes
\* 0..15-nBytes as they were.
C10_RegionKeptEveryWidth ==
  /\ (op \in Generators /\ pc = "returned" /\ err = "nil" /\ nBytes \in 1..8) => RegionKept
  /\ StampKeepsLeading

\* C10 as amended: the same for every nBytes in 1..7 with and without the
\* marker, and for nBytes = 8 without the marker.
C10_RegionKept ==
  /\ (op \in Generators /\ pc = "returned" /\ err = "nil"
        /\ (nBytes \in 1..7 \/ (nBytes = 8 /\ ~rfc4122)))
       => RegionKept
  /\ StampKeepsLeading

\* An identifier returned with the marker and a seven-byte timestamp region
\* of several nonzero bytes, after entropy bytes of all ones.
C10_Witness ==
  /\ op = "CustomTimeStampedUUID"
  /\ pc = "returned"
  /\ err = "nil"
  /\ rfc4122
  /\ nBytes = 7
  /\ t = 1000000000
  /\ res = DefaultRes
  /\ id[8] = 255
  /\ id[11] = 15
  /\ id[15] = 32

====
